---- MODULE Spec2Model ----
(***************************************************************************)
(* Model of the Literise AI service (src/main.py): four mini-games whose   *)
(* sessions live in the process-wide dictionary GAME_CACHE.  A generate     *)
(* handler draws a uuid, awaits the provider and stores the answer key; a  *)
(* validate/check handler looks the session up, grades and deletes it.     *)
(* Handlers run on one event loop: a handler is suspended only at its      *)
(* awaited provider call, so every handler is one atomic action, except    *)
(* the four generate handlers and validate_reading_mission_quiz, which are *)
(* two actions (up to the await, and from the provider's reply on).        *)
(*                                                                         *)
(* Text is a sequence of one-character strings, so that lower(), strip(),  *)
(* rstrip(), the substring test, re.subn and str.count are computed.       *)
(***************************************************************************)
EXTENDS Integers, Sequences, FiniteSets, Bags, TLC

VARIABLES GAME_CACHE, tasks, nextId, last, graded, closed, quizSeen

vars == <<GAME_CACHE, tasks, nextId, last, graded, closed, quizSeen>>

(***************************************************************************)
(* Bounds of the model.                                                    *)
(***************************************************************************)
\* number of session ids uuid4 hands out in one behaviour
MaxIds == 1
\* number of requests that may be suspended at the provider call at once
MaxTasks == 2
\* longest answer key of the grading specification
MaxKey == 5

(***************************************************************************)
(* Python string operations on sequences of characters.                    *)
(***************************************************************************)
UpperChars == <<"A","B","C","D","E","F","G","H","I","J","K","L","M",
                "N","O","P","Q","R","S","T","U","V","W","X","Y","Z">>
LowerChars == <<"a","b","c","d","e","f","g","h","i","j","k","l","m",
                "n","o","p","q","r","s","t","u","v","w","x","y","z">>

\* str.lower() on one (ASCII) character
LowerChar(c) ==
    IF \E i \in 1..Len(UpperChars) : UpperChars[i] = c
    THEN LowerChars[CHOOSE i \in 1..Len(UpperChars) : UpperChars[i] = c]
    ELSE c

\* str.lower()
Lower(s) == [i \in 1..Len(s) |-> LowerChar(s[i])]

\* the characters str.strip() removes, of those the texts here use
Whitespace == {" ", "\t", "\n"}

\* number of leading characters of s that lie in the set chars
RECURSIVE LeadRun(_, _)
LeadRun(s, chars) ==
    IF s = <<>> \/ s[1] \notin chars THEN 0
    ELSE 1 + LeadRun(Tail(s), chars)

\* number of trailing characters of s that lie in the set chars
RECURSIVE TrailRun(_, _)
TrailRun(s, chars) ==
    IF s = <<>> \/ s[Len(s)] \notin chars THEN 0
    ELSE 1 + TrailRun(SubSeq(s, 1, Len(s) - 1), chars)

\* str.rstrip(chars)
RStripChars(s, chars) == SubSeq(s, 1, Len(s) - TrailRun(s, chars))

\* str.strip()
Strip(s) ==
    LET r == RStripChars(s, Whitespace)
    IN  SubSeq(r, 1 + LeadRun(r, Whitespace), Len(r))

\* w occurs in s at index i (1-based), characters compared exactly
MatchAt(w, s, i) ==
    /\ i >= 1
    /\ i + Len(w) - 1 <= Len(s)
    /\ \A j \in 1..Len(w) : s[i + j - 1] = w[j]

\* index of the leftmost occurrence of w in s, 0 when there is none
FindFirst(w, s) ==
    IF \E i \in 1..(Len(s) + 1) : MatchAt(w, s, i)
    THEN CHOOSE i \in 1..(Len(s) + 1) :
            /\ MatchAt(w, s, i)
            /\ \A k \in 1..(i - 1) : ~MatchAt(w, s, k)
    ELSE 0

\* Python's  w in s
Contains(w, s) == FindFirst(w, s) # 0

\* the fixed placeholder of get_library_quiz_text
placeholder == <<"[", ".", ".", ".", ".", ".", "]">>

\* re.subn(re.escape(word), placeholder, text, count=1, flags=re.IGNORECASE):
\* the leftmost case-insensitive occurrence of the literal word is replaced
ReSubnOnce(word, text) ==
    LET i == FindFirst(Lower(word), Lower(text))
    IN  IF i = 0
        THEN [new_text |-> text, count |-> 0]
        ELSE [new_text |-> SubSeq(text, 1, i - 1) \o placeholder
                            \o SubSeq(text, i + Len(word), Len(text)),
              count |-> 1]

\* str.count(sub): non-overlapping occurrences, scanned left to right
RECURSIVE StrCount(_, _)
StrCount(s, sub) ==
    LET i == FindFirst(sub, s)
    IN  IF i = 0 THEN 0
        ELSE 1 + StrCount(SubSeq(s, i + Len(sub), Len(s)), sub)

(***************************************************************************)
(* GAME_CACHE: a Python dict from session id to the stored dict.  A stored *)
(* dict is a record with exactly the keys the generate handler wrote, so   *)
(* "key in dict" is DOMAIN membership and a missing key is a KeyError.     *)
(***************************************************************************)
\* the uuid4 values, in the order they are drawn
Ids == 1..MaxIds

\* key in d
HasKey(d, key) == key \in DOMAIN d

\* GAME_CACHE[id] = value
CachePut(cache, id, value) ==
    [k \in (DOMAIN cache) \cup {id} |-> IF k = id THEN value ELSE cache[k]]

\* del GAME_CACHE[id]   (the caller has established id in GAME_CACHE)
CacheDel(cache, id) == [k \in (DOMAIN cache) \ {id} |-> cache[k]]

(***************************************************************************)
(* Responses.  status is the HTTP status the caller receives: 200 for a    *)
(* returned dict, the status_code of a raised HTTPException, and 500 for   *)
(* an exception no handler catches (detail "Internal Server Error").       *)
(* The other fields are history: late, whether the id was already         *)
(* consumed or never issued when the call started; upstream, the           *)
(* provider's HTTP status (0 when the call never reached the provider);    *)
(* submitted, the list the call submitted (empty for a call without one),  *)
(* and size, its length;                                                   *)
(* before, GAME_CACHE as the handler found it when it ran its last stretch *)
(* (GAME_CACHE itself is the store the response left).  The other history  *)
(* variables: graded[id] counts the graded results returned for id, closed *)
(* holds the ids whose session was consumed by a graded result or by the   *)
(* keyword-count mismatch, quizSeen[id] keeps the first blanked text       *)
(* returned for id and whether one was returned again.                     *)
(***************************************************************************)
NoBody == [none |-> TRUE]

Response(op, id, status, detail, body, late, upstream, submitted, before) ==
    [op |-> op, id |-> id, status |-> status, detail |-> detail,
     body |-> body, late |-> late, upstream |-> upstream,
     submitted |-> submitted, size |-> Len(submitted), before |-> before]

\* the id was consumed before, or uuid4 has not drawn it yet
IsLate(id) == id \in closed \/ id >= nextId

(***************************************************************************)
(* The provider.  A reply is what client.post produced:                    *)
(*   transport_error  the request raised (timeout, connection refused)     *)
(*   http_error       a non-2xx status, with a JSON body or not            *)
(*   blocked          200 without "candidates"                             *)
(*   no_text          200, candidates without content/parts/text           *)
(*   not_json         200, a candidate text json.loads rejects             *)
(*   text             200, a candidate text json.loads accepts; text is    *)
(*                    the value json.loads returns                         *)
(***************************************************************************)
TransportError == [kind |-> "transport_error", status |-> 0]
HttpError(status, json_body) ==
    [kind |-> "http_error", status |-> status, json_body |-> json_body]
Blocked == [kind |-> "blocked", status |-> 200]
NoText == [kind |-> "no_text", status |-> 200]
NotJson == [kind |-> "not_json", status |-> 200]
Text(text) == [kind |-> "text", status |-> 200, text |-> text]

\* the replies that carry no usable content, whatever the prompt was
FailingReplies ==
    {TransportError, HttpError(503, TRUE), HttpError(429, TRUE),
     HttpError(503, FALSE), Blocked, NoText, NotJson}

\* call_gemini_api: what the helper raises for a reply, if anything
call_gemini_api(reply) ==
    CASE reply.kind = "transport_error" ->
            \* except Exception: HTTPException(500, "Error internal Python")
            [raised |-> TRUE, exc |-> "HTTPException", status_code |-> 500]
      [] reply.kind = "http_error" ->
            IF ~reply.json_body
            THEN \* e.response.json() raises inside the except clause
                 [raised |-> TRUE, exc |-> "JSONDecodeError", status_code |-> 0]
            ELSE IF reply.status = 503
            THEN [raised |-> TRUE, exc |-> "HTTPException", status_code |-> 503]
            ELSE [raised |-> TRUE, exc |-> "HTTPException",
                  status_code |-> reply.status]
      [] reply.kind = "blocked" ->
            \* the HTTPException(500) raised in the try is caught by
            \* except Exception and raised again as HTTPException(500)
            [raised |-> TRUE, exc |-> "HTTPException", status_code |-> 500]
      [] OTHER ->
            [raised |-> FALSE, exc |-> "", status_code |-> 200]

\* response_data["candidates"][0]["content"]["parts"][0]["text"] then
\* json.loads: TRUE when both succeed
Parsed(reply) == reply.kind = "text"

(***************************************************************************)
(* What a handler does from one suspension point to the next: the cache it *)
(* leaves and the response it sends.  status 0 stands for "suspended at    *)
(* the awaited provider call", and body then holds what the coroutine      *)
(* keeps in its local variables.                                           *)
(***************************************************************************)
Outcome(cache, status, detail, body) ==
    [cache |-> cache, status |-> status, detail |-> detail, body |-> body]

\* an exception that no try block of the handler catches
Unhandled(cache) == Outcome(cache, 500, "Internal Server Error", NoBody)

(***************************************************************************)
(* Feature 1: Reading Mission.                                             *)
(***************************************************************************)
Topics == {"Efek Pemanasan Global"}

ReadingOk ==
    [reading_text |-> "Artikel", quiz_questions |-> <<"Q1", "Q2", "Q3">>,
     correct_answers |-> <<"A1", "A2", "A3">>]
\* the provider left out a required field, or sent lists of unequal length
ReadingNoText ==
    [quiz_questions |-> <<"Q1", "Q2", "Q3">>,
     correct_answers |-> <<"A1", "A2", "A3">>]
ReadingNoAnswers ==
    [reading_text |-> "Artikel", quiz_questions |-> <<"Q1", "Q2", "Q3">>]
ReadingShortKey ==
    [reading_text |-> "Artikel", quiz_questions |-> <<"Q1", "Q2", "Q3">>,
     correct_answers |-> <<"A1", "A2">>]

ReadingReplies ==
    FailingReplies \cup
    {Text(ReadingOk), Text(ReadingNoText), Text(ReadingNoAnswers),
     Text(ReadingShortKey)}

\* generate_reading_mission from the provider's reply on (lines 148-167)
generate_reading_mission(cache, mission_id, topic, reply) ==
    LET failed == Outcome(cache, 500, "Gagal memproses permintaan AI", NoBody)
        data == reply.text
    IN  IF call_gemini_api(reply).raised \/ ~Parsed(reply) THEN failed
        ELSE IF ~HasKey(data, "quiz_questions") \/ ~HasKey(data, "correct_answers")
        THEN failed
        ELSE LET stored == CachePut(cache, mission_id,
                              [title |-> topic,
                               questions |-> data.quiz_questions,
                               answers |-> data.correct_answers])
             IN  IF ~HasKey(data, "reading_text")
                 THEN \* the KeyError comes after the assignment to GAME_CACHE
                      Outcome(stored, 500, "Gagal memproses permintaan AI", NoBody)
                 ELSE Outcome(stored, 200, "",
                        [mission_id |-> mission_id, title |-> topic,
                         reading_text |-> data.reading_text,
                         quiz_questions |->
                            [i \in 1..Len(data.quiz_questions) |->
                                [question |-> data.quiz_questions[i]]]])

\* request.answers: dicts of strings; "answer" is a key the handler reads
\* and pydantic does not require
Ans == [question |-> "Q", answer |-> "jawaban"]
AnsNoKey == [question |-> "Q"]

QuizSubmits ==
    {<<Ans, Ans, Ans>>, <<Ans, Ans>>, <<Ans, AnsNoKey, Ans>>, <<AnsNoKey>>}

\* validate_reading_mission_quiz up to the awaited provider call
\* (lines 172-224)
validate_reading_mission_quiz_entry(cache, mission_id, answers) ==
    IF mission_id \notin DOMAIN cache
    THEN Outcome(cache, 404, "Misi tidak ditemukan atau sudah kedaluwarsa.", NoBody)
    ELSE LET cached_data == cache[mission_id]
         IN  IF ~HasKey(cached_data, "answers") THEN Unhandled(cache)
             ELSE IF \E i \in 1..Len(answers) : ~HasKey(answers[i], "answer")
             THEN Unhandled(cache)
             ELSE IF ~HasKey(cached_data, "questions") THEN Unhandled(cache)
             ELSE IF Len(answers) # Len(cached_data.answers)
             THEN Outcome(cache, 400, "Jumlah jawaban tidak sesuai.", NoBody)
             ELSE IF Len(cached_data.questions) > Len(cached_data.answers)
             THEN \* correct_answers[i] raises IndexError in the prompt loop
                  Unhandled(cache)
             ELSE Outcome(cache, 0, "", cached_data)

JudgeOk == [results |-> <<"R1", "R2", "R3">>, total_score |-> 80]
JudgeNoScore == [results |-> <<"R1", "R2", "R3">>]

JudgeReplies == FailingReplies \cup {Text(JudgeOk), Text(JudgeNoScore)}

\* the mutant: a delete that tolerates a missing key (GAME_CACHE.pop(id, None))
validate_reading_mission_quiz_pop(cache, mission_id, cached_data, reply) ==
    LET failed == Outcome(cache, 500, "Gagal menilai kuis", NoBody)
        data == reply.text
    IN  IF call_gemini_api(reply).raised \/ ~Parsed(reply) THEN failed
        ELSE LET deleted == CacheDel(cache, mission_id)
             IN  IF ~HasKey(data, "total_score") \/ ~HasKey(data, "results")
                 THEN Outcome(deleted, 500, "Gagal menilai kuis", NoBody)
                 ELSE Outcome(deleted, 200, "",
                        [title |-> cached_data.title,
                         total_score |-> data.total_score,
                         results |-> data.results])

\* validate_reading_mission_quiz from the provider's reply on (lines 226-239)
validate_reading_mission_quiz(cache, mission_id, cached_data, reply) ==
    LET failed == Outcome(cache, 500, "Gagal menilai kuis", NoBody)
        data == reply.text
    IN  IF call_gemini_api(reply).raised \/ ~Parsed(reply) THEN failed
        ELSE IF mission_id \notin DOMAIN cache
        THEN \* del GAME_CACHE[mission_id] raises KeyError inside the try
             failed
        ELSE LET deleted == CacheDel(cache, mission_id)
             IN  IF ~HasKey(data, "total_score") \/ ~HasKey(data, "results")
                 THEN \* the KeyError comes after the delete
                      Outcome(deleted, 500, "Gagal menilai kuis", NoBody)
                 ELSE Outcome(deleted, 200, "",
                        [title |-> cached_data.title,
                         total_score |-> data.total_score,
                         results |-> data.results])

(***************************************************************************)
(* Feature 2: Hoax or Not?                                                 *)
(***************************************************************************)
HoaxTrue ==
    [news_snippet |-> "Berita", is_hoax |-> TRUE, explanation |-> "Penjelasan",
     source_url |-> "https://cek"]
\* source_url is not required by the schema
HoaxFalse ==
    [news_snippet |-> "Berita", is_hoax |-> FALSE, explanation |-> "Penjelasan"]
HoaxNoSnippet == [is_hoax |-> TRUE, explanation |-> "Penjelasan"]
HoaxNoExplanation == [news_snippet |-> "Berita", is_hoax |-> TRUE]

HoaxReplies ==
    FailingReplies \cup
    {Text(HoaxTrue), Text(HoaxFalse), Text(HoaxNoSnippet), Text(HoaxNoExplanation)}

\* the mutant: the response carries the verdict
generate_hoax_quiz_leaks(cache, mission_id, reply) ==
    LET failed == Outcome(cache, 500, "Gagal membuat kuis Hoax", NoBody)
        data == reply.text
    IN  IF call_gemini_api(reply).raised \/ ~Parsed(reply) THEN failed
        ELSE IF ~HasKey(data, "is_hoax") \/ ~HasKey(data, "explanation")
        THEN failed
        ELSE LET stored == CachePut(cache, mission_id,
                              [is_hoax |-> data.is_hoax,
                               explanation |-> data.explanation,
                               source_url |->
                                  IF HasKey(data, "source_url")
                                  THEN data.source_url ELSE "N/A"])
             IN  IF ~HasKey(data, "news_snippet")
                 THEN Outcome(stored, 500, "Gagal membuat kuis Hoax", NoBody)
                 ELSE Outcome(stored, 200, "",
                        [mission_id |-> mission_id,
                         news_snippet |-> data.news_snippet,
                         is_hoax |-> data.is_hoax])

\* generate_hoax_quiz from the provider's reply on (lines 281-299)
generate_hoax_quiz(cache, mission_id, reply) ==
    LET failed == Outcome(cache, 500, "Gagal membuat kuis Hoax", NoBody)
        data == reply.text
    IN  IF call_gemini_api(reply).raised \/ ~Parsed(reply) THEN failed
        ELSE IF ~HasKey(data, "is_hoax") \/ ~HasKey(data, "explanation")
        THEN failed
        ELSE LET stored == CachePut(cache, mission_id,
                              [is_hoax |-> data.is_hoax,
                               explanation |-> data.explanation,
                               source_url |->
                                  IF HasKey(data, "source_url")
                                  THEN data.source_url ELSE "N/A"])
             IN  IF ~HasKey(data, "news_snippet")
                 THEN \* the KeyError comes after the assignment to GAME_CACHE
                      Outcome(stored, 500, "Gagal membuat kuis Hoax", NoBody)
                 ELSE Outcome(stored, 200, "",
                        [mission_id |-> mission_id,
                         news_snippet |-> data.news_snippet])

\* str.capitalize() of the two answer words
hoax == <<"h", "o", "a", "x">>
fakta == <<"f", "a", "k", "t", "a">>
UpperChar(c) ==
    IF \E i \in 1..Len(LowerChars) : LowerChars[i] = c
    THEN UpperChars[CHOOSE i \in 1..Len(LowerChars) : LowerChars[i] = c]
    ELSE c
Capitalize(s) ==
    [i \in 1..Len(s) |-> IF i = 1 THEN UpperChar(s[i]) ELSE LowerChar(s[i])]

HoaxChoices ==
    {<<"H", "o", "a", "x">>, <<"F", "A", "K", "T", "A">>, <<"y", "a">>}

\* the mutant: the stored dict is read with .get(), a missing verdict
\* counting as "not a hoax"
check_hoax_answer_get(cache, mission_id, user_choice) ==
    LET user_choice_str == Lower(user_choice)
    IN  IF mission_id \notin DOMAIN cache
        THEN Outcome(cache, 404, "Kuis tidak ditemukan atau sudah kedaluwarsa.", NoBody)
        ELSE LET cached_data == cache[mission_id]
                 correct_answer_str ==
                    IF HasKey(cached_data, "is_hoax") /\ cached_data.is_hoax
                    THEN hoax ELSE fakta
             IN  Outcome(CacheDel(cache, mission_id), 200, "",
                    [is_correct |-> user_choice_str = correct_answer_str,
                     correct_answer |-> Capitalize(correct_answer_str),
                     explanation |->
                        IF HasKey(cached_data, "explanation")
                        THEN cached_data.explanation ELSE "None",
                     source_url |->
                        IF HasKey(cached_data, "source_url")
                        THEN cached_data.source_url ELSE "None"])

\* the mutant: the choice is compared as typed
check_hoax_answer_exact(cache, mission_id, user_choice) ==
    IF mission_id \notin DOMAIN cache
    THEN Outcome(cache, 404, "Kuis tidak ditemukan atau sudah kedaluwarsa.", NoBody)
    ELSE LET cached_data == cache[mission_id]
         IN  IF ~HasKey(cached_data, "is_hoax") THEN Unhandled(cache)
             ELSE LET correct_answer_str ==
                          IF cached_data.is_hoax THEN hoax ELSE fakta
                  IN  Outcome(CacheDel(cache, mission_id), 200, "",
                        [is_correct |-> user_choice = correct_answer_str,
                         correct_answer |-> Capitalize(correct_answer_str),
                         explanation |-> cached_data.explanation,
                         source_url |-> cached_data.source_url])

\* the mutant: the answer is graded and the session is kept
check_hoax_answer_keeps(cache, mission_id, user_choice) ==
    LET user_choice_str == Lower(user_choice)
    IN  IF mission_id \notin DOMAIN cache
        THEN Outcome(cache, 404, "Kuis tidak ditemukan atau sudah kedaluwarsa.", NoBody)
        ELSE LET cached_data == cache[mission_id]
             IN  IF ~HasKey(cached_data, "is_hoax") THEN Unhandled(cache)
                 ELSE LET correct_answer_str ==
                              IF cached_data.is_hoax THEN hoax ELSE fakta
                      IN  Outcome(cache, 200, "",
                            [is_correct |-> user_choice_str = correct_answer_str,
                             correct_answer |-> Capitalize(correct_answer_str),
                             explanation |-> cached_data.explanation,
                             source_url |-> cached_data.source_url])

\* check_hoax_answer (lines 302-321)
check_hoax_answer(cache, mission_id, user_choice) ==
    LET user_choice_str == Lower(user_choice)
    IN  IF mission_id \notin DOMAIN cache
        THEN Outcome(cache, 404, "Kuis tidak ditemukan atau sudah kedaluwarsa.", NoBody)
        ELSE LET cached_data == cache[mission_id]
             IN  IF ~HasKey(cached_data, "is_hoax") THEN Unhandled(cache)
                 ELSE LET correct_answer_str ==
                              IF cached_data.is_hoax THEN hoax ELSE fakta
                      IN  Outcome(CacheDel(cache, mission_id), 200, "",
                            [is_correct |-> user_choice_str = correct_answer_str,
                             correct_answer |-> Capitalize(correct_answer_str),
                             explanation |-> cached_data.explanation,
                             source_url |-> cached_data.source_url])

(***************************************************************************)
(* Exact-match grading, shared by validate_library_blanks and              *)
(* submit_grammar_game.                                                    *)
(***************************************************************************)
\* the mutant: the comparison lower-cases and does not strip
IsCorrect_unstripped(user, correct) == Lower(user) = Lower(correct)

\* user.strip().lower() == correct.strip().lower()
IsCorrect(user, correct) == Lower(Strip(user)) = Lower(Strip(correct))

(***************************************************************************)
(* The score is a Python float (IEEE 754 binary64).  A float below 2^31    *)
(* whose last significant bit is worth 2^-80 or more is held exactly as    *)
(* the integer value * 2^80, written in five digits of base 2^20, most     *)
(* significant first: x[1] is the whole part and x[2..5] are the 80 bits   *)
(* after the point.  100 / n is such a float for every n an integer of the *)
(* model can be (n < 2^31 gives 100 / n > 2^-25, whose last bit is worth   *)
(* more than 2^-77), and so is every partial sum of the score.             *)
(***************************************************************************)
Limb == 1048576

\* 0.0 (and the int 0 total_score starts from)
FloatZero == <<0, 0, 0, 0, 0>>

\* floor(log2(m)) for m >= 1
RECURSIVE ILog2(_)
ILog2(m) == IF m < 2 THEN 0 ELSE 1 + ILog2(m \div 2)

\* the position of the leading bit of x > 0, bit 0 being worth 2^-80
Exponent(x) ==
    LET j == CHOOSE j \in 1..5 : x[j] # 0 /\ \A i \in 1..(j - 1) : x[i] = 0
    IN  20 * (5 - j) + ILog2(x[j])

\* the digits after the carries were passed upwards
Carry(x) ==
    LET s5 == x[5]
        s4 == x[4] + (s5 \div Limb)
        s3 == x[3] + (s4 \div Limb)
        s2 == x[2] + (s3 \div Limb)
        s1 == x[1] + (s2 \div Limb)
    IN  <<s1, s2 % Limb, s3 % Limb, s4 % Limb, s5 % Limb>>

\* bit b of x is set
BitAt(x, b) == (x[5 - (b \div 20)] \div (2 ^ (b % 20))) % 2 = 1

\* x with the bits below bit b cleared
Truncate(x, b) ==
    [j \in 1..5 |->
        LET lo == 20 * (5 - j)
        IN  IF lo + 20 <= b THEN 0
            ELSE IF lo >= b THEN x[j]
            ELSE x[j] - (x[j] % (2 ^ (b - lo)))]

\* round-to-nearest, ties-to-even, of the exact value x (plus a non-zero
\* remainder below its last digit when sticky) to the 53 significant bits
\* of a float: the bits below bit Exponent(x) - 52 are rounded away
RoundToFloat(x, sticky) ==
    LET b == Exponent(x) - 52
    IN  IF b <= 0 THEN x
        ELSE LET kept == Truncate(x, b)
                 half == BitAt(x, b - 1)
                 more == sticky \/ Truncate(x, b - 1) # x
                 odd == BitAt(x, b)
             IN  IF half /\ (more \/ odd)
                 THEN Carry([kept EXCEPT ![5 - (b \div 20)] = @ + 2 ^ (b % 20)])
                 ELSE kept

\* x + y on floats
FloatAdd(x, y) ==
    IF x = FloatZero THEN y
    ELSE IF y = FloatZero THEN x
    ELSE RoundToFloat(Carry([j \in 1..5 |-> x[j] + y[j]]), FALSE)

\* the next bits binary digits of r / n (r < n), and the remainder left
RECURSIVE DivBits(_, _, _)
DivBits(r, n, bits) ==
    IF bits = 0 THEN <<0, r>>
    ELSE LET one == r >= n - r
             rest == DivBits(IF one THEN r - (n - r) ELSE r + r, n, bits - 1)
         IN  <<(IF one THEN 2 ^ (bits - 1) ELSE 0) + rest[1], rest[2]>>

\* 100 / n as a float, n >= 1: the quotient of 100 by n to 80 bits after
\* the point, digit by digit, rounded to 53 significant bits
FloatDiv100(n) ==
    LET d2 == DivBits(100 % n, n, 20)
        d3 == DivBits(d2[2], n, 20)
        d4 == DivBits(d3[2], n, 20)
        d5 == DivBits(d4[2], n, 20)
    IN  RoundToFloat(<<100 \div n, d2[1], d3[1], d4[1], d5[1]>>, d5[2] # 0)

\* Python's round() of a float: to the nearest integer, ties to even
PyRound(x) ==
    LET whole == x[1]
        tail == x[3] # 0 \/ x[4] # 0 \/ x[5] # 0
        above == x[2] > 524288 \/ (x[2] = 524288 /\ tail)
        tie == x[2] = 524288 /\ ~tail
    IN  IF above \/ (tie /\ whole % 2 = 1) THEN whole + 1 ELSE whole

\* total_score after the loop of lines 501-504 (602-605) has added
\* score_per_item to it passes times, one float addition after the other;
\* an item that is not correct adds 0, which leaves the sum as it is.  The
\* additions are made in the loop's order: the first half of them, then
\* the rest from the sum the first half left.
RECURSIVE SumScores(_, _, _)
SumScores(total_score, score_per_item, passes) ==
    IF passes = 0 THEN total_score
    ELSE IF passes = 1 THEN FloatAdd(total_score, score_per_item)
    ELSE LET first == {SumScores(total_score, score_per_item, passes \div 2)}
         IN  CHOOSE total \in
                 {SumScores(t, score_per_item, passes - (passes \div 2)) :
                     t \in first} : TRUE

\* the mutant: every item's score is rounded before it is added
TotalScore_per_item(user, correct) ==
    Cardinality({i \in 1..Len(correct) : IsCorrect(user[i], correct[i])})
        * PyRound(FloatDiv100(Len(correct)))

\* round(total_score), total_score being the float sum of the item scores
TotalScore(user, correct) ==
    PyRound(SumScores(FloatZero, FloatDiv100(Len(correct)),
                      Cardinality({i \in 1..Len(correct) :
                                      IsCorrect(user[i], correct[i])})))

(***************************************************************************)
(* Feature 3: Library Hub.                                                 *)
(***************************************************************************)
Formats == {"Cerpen"}
Genres == {"Fantasy"}

\* provider outputs for the Library Hub prompt
TextAbCd == <<"a", "b", " ", "c", "d">>
\* a text that already holds the placeholder
TextAbPlaceholder == <<"a", "b", " ">> \o placeholder

LibraryOk ==
    [full_text |-> TextAbCd, blanks |-> << <<"a", "b">>, <<" ", "C", "d">> >>]
\* "cd." passes the check of line 384 without its full stop
LibraryDotted ==
    [full_text |-> TextAbCd, blanks |-> << <<"c", "d", ".">>, <<"a", "b">> >>]
LibraryPlaceholder ==
    [full_text |-> TextAbPlaceholder, blanks |-> << <<"a", "b">>, <<"b", ".">> >>]
\* the spec's overlapping keywords: the second lies inside the first
TextKupu ==
    <<"k", "u", "p", "u", "-", "k", "u", "p", "u", " ",
      "t", "e", "r", "b", "a", "n", "g">>
LibraryOverlap ==
    [full_text |-> TextKupu,
     blanks |-> << <<"K", "u", "p", "u", "-", "k", "u", "p", "u">>,
                   <<"k", "u", "p", "u">> >>]
\* the second keyword lies inside the first, next to a literal placeholder
LibraryOverlapPlaceholder ==
    [full_text |-> TextAbPlaceholder, blanks |-> << <<"a", "b">>, <<"b">> >>]
\* a single keyword made of a character of the placeholder
LibraryBracket ==
    [full_text |-> <<"a", "b", " ", "[">>, blanks |-> << <<"[">> >>]
\* more keywords than generate keeps
LibrarySeven ==
    [full_text |-> TextAbCd,
     blanks |-> << <<"a", "b">>, <<"c", "d">>, <<"a", "b">>, <<"c", "d">>,
                   <<"a", "b">>, <<"c", "d">>, <<"a", "b">> >>]
\* the only keyword of the text comes sixth
LibrarySixth ==
    [full_text |-> TextAbCd,
     blanks |-> << <<"z", "z">>, <<"z", "z">>, <<"z", "z">>, <<"z", "z">>,
                   <<"z", "z">>, <<"a", "b">> >>]
LibraryUnverified ==
    [full_text |-> TextAbCd, blanks |-> << <<"z", "z">>, <<".">> >>]
LibraryNoBlanks == [full_text |-> TextAbCd]

LibraryReplies ==
    FailingReplies \cup
    {Text(LibraryOk), Text(LibraryDotted), Text(LibraryPlaceholder),
     Text(LibraryOverlap), Text(LibraryOverlapPlaceholder), Text(LibraryBracket),
     Text(LibrarySeven), Text(LibrarySixth), Text(LibraryUnverified),
     Text(LibraryNoBlanks)}

LibrarySubmits ==
    {<< <<"a", "b">>, <<"c", "d">> >>, << <<" ", "A", "B">>, <<"x">> >>,
     << <<"a", "b">> >>}

\* the [:5] of generate_library_full_text
MaxBlanks == 5

\* the mutant: the list is not cut
Take_all(list, n) == list

\* list[:n]
Take(list, n) == SubSeq(list, 1, IF Len(list) < n THEN Len(list) ELSE n)

\* the test of line 384 on one keyword of the provider
Verified(blank, full_text) ==
    LET clean_blank_for_check == RStripChars(Lower(Strip(blank)), {".", ",", "?", "!"})
    IN  clean_blank_for_check # <<>> /\ Contains(clean_blank_for_check, Lower(full_text))

\* the loop of lines 378-389: the stripped keywords that pass, in order
RECURSIVE VerifiedBlanks(_, _)
VerifiedBlanks(words_to_check, full_text) ==
    IF words_to_check = <<>> THEN <<>>
    ELSE (IF Verified(Head(words_to_check), full_text)
          THEN <<Strip(Head(words_to_check))>> ELSE <<>>)
         \o VerifiedBlanks(Tail(words_to_check), full_text)

\* generate_library_full_text from the provider's reply on (lines 364-410)
generate_library_full_text(cache, game_id, format, genre, reply) ==
    LET failed == Outcome(cache, 500, "Gagal membuat teks Library", NoBody)
        data == reply.text
    IN  IF call_gemini_api(reply).raised \/ ~Parsed(reply) THEN failed
        ELSE IF ~HasKey(data, "full_text") \/ ~HasKey(data, "blanks") THEN failed
        ELSE LET verified_blanks ==
                    VerifiedBlanks(Take(data.blanks, MaxBlanks), data.full_text)
             IN  IF verified_blanks = <<>> THEN failed
                 ELSE Outcome(
                        CachePut(cache, game_id,
                                 [full_text |-> data.full_text,
                                  correct_answers |-> verified_blanks]),
                        200, "",
                        [game_id |-> game_id, full_text |-> data.full_text,
                         title |-> <<format, genre>>])

\* the loop of lines 433-453: the text after each keyword, in order, was
\* replaced once where it matched, and the number of keywords that matched
RECURSIVE BlankOut(_, _)
BlankOut(text_with_blanks, answers) ==
    IF answers = <<>>
    THEN [text_with_blanks |-> text_with_blanks, blanks_created |-> 0]
    ELSE LET sub == ReSubnOnce(Head(answers), text_with_blanks)
             rest == BlankOut(sub.new_text, Tail(answers))
         IN  [text_with_blanks |-> rest.text_with_blanks,
              blanks_created |-> sub.count + rest.blanks_created]

\* the mutant: the mismatch is reported and the session is kept
get_library_quiz_text_keeps(cache, game_id) ==
    IF game_id \notin DOMAIN cache \/ ~HasKey(cache[game_id], "correct_answers")
    THEN Outcome(cache, 404, "Game tidak ditemukan atau data tidak valid.", NoBody)
    ELSE LET cached_data == cache[game_id]
             answers == cached_data.correct_answers
             blanked == BlankOut(cached_data.full_text, answers)
         IN  IF StrCount(blanked.text_with_blanks, placeholder) # Len(answers)
             THEN Outcome(cache, 500,
                          "Gagal membuat kuis: Terjadi ketidakcocokan kata kunci.",
                          NoBody)
             ELSE Outcome(cache, 200, "",
                    [game_id |-> game_id,
                     text_with_blanks |-> blanked.text_with_blanks,
                     total_questions |-> Len(answers)])

\* the mutant: the blanked text is written back into the session
get_library_quiz_text_writes(cache, game_id) ==
    IF game_id \notin DOMAIN cache \/ ~HasKey(cache[game_id], "correct_answers")
    THEN Outcome(cache, 404, "Game tidak ditemukan atau data tidak valid.", NoBody)
    ELSE LET cached_data == cache[game_id]
             answers == cached_data.correct_answers
             blanked == BlankOut(cached_data.full_text, answers)
         IN  IF StrCount(blanked.text_with_blanks, placeholder) # Len(answers)
             THEN Outcome(CacheDel(cache, game_id), 500,
                          "Gagal membuat kuis: Terjadi ketidakcocokan kata kunci.",
                          NoBody)
             ELSE Outcome(
                    CachePut(cache, game_id,
                             [full_text |-> blanked.text_with_blanks,
                              correct_answers |-> answers]),
                    200, "",
                    [game_id |-> game_id,
                     text_with_blanks |-> blanked.text_with_blanks,
                     total_questions |-> Len(answers)])

\* get_library_quiz_text (lines 413-476)
get_library_quiz_text(cache, game_id) ==
    IF game_id \notin DOMAIN cache \/ ~HasKey(cache[game_id], "correct_answers")
    THEN Outcome(cache, 404, "Game tidak ditemukan atau data tidak valid.", NoBody)
    ELSE LET cached_data == cache[game_id]
             answers == cached_data.correct_answers
             expected_blanks == Len(answers)
             blanked == BlankOut(cached_data.full_text, answers)
             actual_blanks_created == StrCount(blanked.text_with_blanks, placeholder)
         IN  IF actual_blanks_created # expected_blanks
             THEN Outcome(CacheDel(cache, game_id), 500,
                          "Gagal membuat kuis: Terjadi ketidakcocokan kata kunci.",
                          NoBody)
             ELSE Outcome(cache, 200, "",
                    [game_id |-> game_id,
                     text_with_blanks |-> blanked.text_with_blanks,
                     total_questions |-> Len(answers)])

\* validate_library_blanks (lines 479-520)
validate_library_blanks(cache, game_id, user_answers) ==
    IF game_id \notin DOMAIN cache \/ ~HasKey(cache[game_id], "correct_answers")
    THEN Outcome(cache, 404, "Game tidak ditemukan atau jawaban tidak valid.", NoBody)
    ELSE LET cached_data == cache[game_id]
             correct_answers == cached_data.correct_answers
         IN  IF Len(user_answers) # Len(correct_answers)
             THEN Outcome(cache, 400, "Jumlah jawaban tidak sesuai.", NoBody)
             ELSE IF Len(correct_answers) = 0
             THEN \* 100 / len(correct_answers) raises ZeroDivisionError
                  Unhandled(cache)
             ELSE Outcome(CacheDel(cache, game_id), 200, "",
                    [total_score |-> TotalScore(user_answers, correct_answers),
                     results |->
                        [i \in 1..Len(correct_answers) |->
                            [blank_index |-> i,
                             user_answer |-> user_answers[i],
                             correct_answer |-> correct_answers[i],
                             is_correct |->
                                IsCorrect(user_answers[i], correct_answers[i])]],
                     full_text |-> cached_data.full_text])

(***************************************************************************)
(* Feature 4: Zona Tata Bahasa.                                            *)
(***************************************************************************)
GrammarGenres == {"Slice of Life"}

\* provider outputs for the grammar prompt; the lists may disagree in length
GrammarOk ==
    [sentences_to_fix |-> << <<"a", "k">>, <<"d", "i">> >>,
     correct_sentences |-> << <<"A", "k", ".">>, <<"d", "i">> >>]
GrammarShortOriginal ==
    [sentences_to_fix |-> << <<"a", "k">> >>,
     correct_sentences |-> << <<"A", "k", ".">>, <<"d", "i">> >>]
\* the sentences of GrammarOk with another key
GrammarOtherKey ==
    [sentences_to_fix |-> << <<"a", "k">>, <<"d", "i">> >>,
     correct_sentences |-> << <<"a", "k">>, <<"D", "i", ".">> >>]
GrammarEmpty == [sentences_to_fix |-> <<>>, correct_sentences |-> <<>>]
GrammarNoCorrect == [sentences_to_fix |-> << <<"a", "k">>, <<"d", "i">> >>]

GrammarReplies ==
    FailingReplies \cup
    {Text(GrammarOk), Text(GrammarOtherKey), Text(GrammarShortOriginal),
     Text(GrammarEmpty), Text(GrammarNoCorrect)}

GrammarSubmits ==
    {<< <<"a", "k", ".">>, <<"D", "I", " ">> >>, << <<"a", "k">>, <<"d", "i">> >>,
     << <<"a", "k", ".">> >>, <<>>}

\* generate_grammar_game from the provider's reply on (lines 564-582)
generate_grammar_game(cache, game_id, genre, reply) ==
    LET failed == Outcome(cache, 500, "Gagal membuat game Tata Bahasa", NoBody)
        data == reply.text
    IN  IF call_gemini_api(reply).raised \/ ~Parsed(reply) THEN failed
        ELSE IF ~HasKey(data, "correct_sentences") \/ ~HasKey(data, "sentences_to_fix")
        THEN failed
        ELSE Outcome(
                CachePut(cache, game_id,
                         [correct_sentences |-> data.correct_sentences,
                          original_sentences |-> data.sentences_to_fix]),
                200, "",
                [game_id |-> game_id, genre |-> genre,
                 sentences_to_fix |-> data.sentences_to_fix])

\* submit_grammar_game (lines 585-619)
submit_grammar_game(cache, game_id, user_corrections) ==
    IF game_id \notin DOMAIN cache \/ ~HasKey(cache[game_id], "correct_sentences")
    THEN Outcome(cache, 404, "Game tidak ditemukan atau data tidak valid.", NoBody)
    ELSE LET cached_data == cache[game_id]
             correct_sentences == cached_data.correct_sentences
             original_sentences == cached_data.original_sentences
         IN  IF Len(user_corrections) # Len(correct_sentences)
             THEN Outcome(cache, 400, "Jumlah jawaban tidak sesuai.", NoBody)
             ELSE IF Len(correct_sentences) = 0
             THEN \* 100 / len(correct_sentences) raises ZeroDivisionError
                  Unhandled(cache)
             ELSE IF Len(original_sentences) < Len(correct_sentences)
             THEN \* original_sentences[i] raises IndexError before the delete
                  Unhandled(cache)
             ELSE Outcome(CacheDel(cache, game_id), 200, "",
                    [total_score |-> TotalScore(user_corrections, correct_sentences),
                     results |->
                        [i \in 1..Len(correct_sentences) |->
                            [original |-> original_sentences[i],
                             user_correction |-> user_corrections[i],
                             correct_sentence |-> correct_sentences[i],
                             is_correct |->
                                IsCorrect(user_corrections[i], correct_sentences[i])]]])

(***************************************************************************)
(* The server: requests arrive, run to their suspension point or to their  *)
(* response, and suspended requests resume in any order.                   *)
(***************************************************************************)
GenerateOps ==
    {"generate_reading_mission", "generate_hoax_quiz",
     "generate_library_full_text", "generate_grammar_game"}

\* the handlers that grade a submission
GradingOps ==
    {"validate_reading_mission_quiz", "check_hoax_answer",
     "validate_library_blanks", "submit_grammar_game"}

NoResponse == Response("none", 0, 0, "", NoBody, FALSE, 0, <<>>, <<>>)

Init ==
    /\ GAME_CACHE = <<>>
    /\ tasks = EmptyBag
    /\ nextId = 1
    /\ last = NoResponse
    /\ graded = [i \in Ids |-> 0]
    /\ closed = {}
    /\ quizSeen = <<>>

\* the requests suspended at their provider call: a bag, since two
\* requests may hold the same arguments
Suspended == BagToSet(tasks)

\* the handler sends its response: the cache it leaves, and the history
Respond(op, id, o, late, upstream, submitted) ==
    /\ GAME_CACHE' = o.cache
    /\ last' = Response(op, id, o.status, o.detail, o.body, late, upstream,
                        submitted, GAME_CACHE)
    /\ graded' = IF op \in GradingOps /\ o.status = 200
                 THEN [graded EXCEPT ![id] = @ + 1] ELSE graded
    /\ closed' = IF \/ op \in GradingOps /\ o.status = 200
                    \/ op = "get_library_quiz_text" /\ o.status = 500
                 THEN closed \cup {id} ELSE closed
    /\ quizSeen' = IF op = "get_library_quiz_text" /\ o.status = 200
                   THEN IF id \in DOMAIN quizSeen
                        THEN [quizSeen EXCEPT ![id].repeated = TRUE]
                        ELSE CachePut(quizSeen, id,
                                      [body |-> o.body, repeated |-> FALSE])
                   ELSE quizSeen

\* a request reaches its awaited provider call
Suspend(task) ==
    /\ BagCardinality(tasks) < MaxTasks
    /\ tasks' = tasks (+) SetToBag({task})
    /\ UNCHANGED <<GAME_CACHE, last, graded, closed, quizSeen>>

\* a generate handler draws str(uuid.uuid4()) and awaits the provider
Draw(task) ==
    /\ nextId <= MaxIds
    /\ Suspend(task)
    /\ nextId' = nextId + 1

generate_reading_mission_await(topic) ==
    Draw([op |-> "generate_reading_mission", id |-> nextId, topic |-> topic,
          submitted |-> <<>>])

generate_hoax_quiz_await ==
    Draw([op |-> "generate_hoax_quiz", id |-> nextId, submitted |-> <<>>])

generate_library_full_text_await(format, genre) ==
    Draw([op |-> "generate_library_full_text", id |-> nextId,
          format |-> format, genre |-> genre, submitted |-> <<>>])

generate_grammar_game_await(genre) ==
    Draw([op |-> "generate_grammar_game", id |-> nextId, genre |-> genre,
          submitted |-> <<>>])

\* a suspended request gets the provider's reply and runs to its response
Resume(t, op, o, reply) ==
    /\ tasks' = tasks (-) SetToBag({t})
    /\ Respond(op, t.id, o, FALSE, reply.status, t.submitted)
    /\ UNCHANGED nextId

generate_reading_mission_resume(t, reply) ==
    /\ t.op = "generate_reading_mission"
    /\ Resume(t, t.op,
              generate_reading_mission(GAME_CACHE, t.id, t.topic, reply),
              reply)

generate_hoax_quiz_resume(t, reply) ==
    /\ t.op = "generate_hoax_quiz"
    /\ Resume(t, t.op,
              generate_hoax_quiz(GAME_CACHE, t.id, reply), reply)

generate_library_full_text_resume(t, reply) ==
    /\ t.op = "generate_library_full_text"
    /\ Resume(t, t.op,
              generate_library_full_text(GAME_CACHE, t.id, t.format,
                                         t.genre, reply),
              reply)

generate_grammar_game_resume(t, reply) ==
    /\ t.op = "generate_grammar_game"
    /\ Resume(t, t.op,
              generate_grammar_game(GAME_CACHE, t.id, t.genre, reply),
              reply)

\* validate_reading_mission_quiz is called: it answers at once, or reaches
\* the provider call holding cached_data
validate_reading_mission_quiz_await(mission_id, answers) ==
    LET o == validate_reading_mission_quiz_entry(GAME_CACHE, mission_id, answers)
    IN  IF o.status = 0
        THEN /\ Suspend([op |-> "validate_reading_mission_quiz", id |-> mission_id,
                         cached_data |-> o.body, submitted |-> answers])
             /\ UNCHANGED nextId
        ELSE /\ Respond("validate_reading_mission_quiz", mission_id, o,
                        IsLate(mission_id), 0, answers)
             /\ UNCHANGED <<tasks, nextId>>

validate_reading_mission_quiz_resume(t, reply) ==
    /\ t.op = "validate_reading_mission_quiz"
    /\ Resume(t, t.op,
              validate_reading_mission_quiz(GAME_CACHE, t.id,
                                            t.cached_data, reply),
              reply)

\* a handler without an await runs from request to response in one step
Atomic(op, id, o, submitted) ==
    /\ Respond(op, id, o, IsLate(id), 0, submitted)
    /\ UNCHANGED <<tasks, nextId>>

check_hoax_answer_request(mission_id, user_choice) ==
    Atomic("check_hoax_answer", mission_id,
           check_hoax_answer(GAME_CACHE, mission_id, user_choice), <<user_choice>>)

get_library_quiz_text_request(game_id) ==
    Atomic("get_library_quiz_text", game_id,
           get_library_quiz_text(GAME_CACHE, game_id), <<>>)

validate_library_blanks_request(game_id, user_answers) ==
    Atomic("validate_library_blanks", game_id,
           validate_library_blanks(GAME_CACHE, game_id, user_answers),
           user_answers)

submit_grammar_game_request(game_id, user_corrections) ==
    Atomic("submit_grammar_game", game_id,
           submit_grammar_game(GAME_CACHE, game_id, user_corrections),
           user_corrections)

Next ==
    \/ \E topic \in Topics : generate_reading_mission_await(topic)
    \/ generate_hoax_quiz_await
    \/ \E format \in Formats, genre \in Genres :
          generate_library_full_text_await(format, genre)
    \/ \E genre \in GrammarGenres : generate_grammar_game_await(genre)
    \/ \E t \in Suspended, reply \in ReadingReplies :
          generate_reading_mission_resume(t, reply)
    \/ \E t \in Suspended, reply \in HoaxReplies : generate_hoax_quiz_resume(t, reply)
    \/ \E t \in Suspended, reply \in LibraryReplies :
          generate_library_full_text_resume(t, reply)
    \/ \E t \in Suspended, reply \in GrammarReplies :
          generate_grammar_game_resume(t, reply)
    \/ \E id \in Ids, answers \in QuizSubmits :
          validate_reading_mission_quiz_await(id, answers)
    \/ \E t \in Suspended, reply \in JudgeReplies :
          validate_reading_mission_quiz_resume(t, reply)
    \/ \E id \in Ids, user_choice \in HoaxChoices :
          check_hoax_answer_request(id, user_choice)
    \/ \E id \in Ids : get_library_quiz_text_request(id)
    \/ \E id \in Ids, user_answers \in LibrarySubmits :
          validate_library_blanks_request(id, user_answers)
    \/ \E id \in Ids, user_corrections \in GrammarSubmits :
          submit_grammar_game_request(id, user_corrections)

Spec == Init /\ [][Next]_vars

(***************************************************************************)
(* Grading on longer keys.  The store starts with one LibraryBlanks or one *)
(* GrammarFix session under the first id, as a generate call leaves it     *)
(* when the provider returned n keywords (at most 5 are kept) or n         *)
(* sentences, and the two grading handlers are called with every list of   *)
(* at most MaxKey strings, the i-th drawn from GradeWords(i).  The grammar *)
(* key, whose length the code does not limit, also takes the lengths of    *)
(* GradeLongKeys, where 100 * k / n falls half-way between two integers;   *)
(* those keys are submitted to with the first k items right, for the k of  *)
(* a tie and for none and all.                                             *)
(***************************************************************************)
\* key lengths at which the float sum of the item scores meets a tie
GradeLongKeys == {8, 48, 352}

\* strings a player may submit at position i: one wrong by an inner space,
\* and one that is right up to case and outer whitespace
GradeWords(i) ==
    {<<"a", " ", "b">>, IF i % 2 = 1 THEN <<" ", "a", "B", "\n">> ELSE <<"X">>}

\* the keywords generate_library_full_text stored (stripped, found in the text)
GradeBlanks(n) == [i \in 1..n |-> IF i % 2 = 1 THEN <<"A", "b">> ELSE <<"x">>]

\* the sentences generate_grammar_game stored (as the provider sent them)
GradeSentences(n) ==
    [i \in 1..n |-> IF i % 2 = 1 THEN <<"A", "b", " ">> ELSE <<"x">>]

GradeSessions ==
    {[full_text |-> <<"A", "b", " ", "x">>, correct_answers |-> GradeBlanks(n)] :
        n \in 1..(IF MaxKey < MaxBlanks THEN MaxKey ELSE MaxBlanks)}
    \cup
    {[correct_sentences |-> GradeSentences(n),
      original_sentences |-> [i \in 1..n |-> <<"o", "k">>]] :
        n \in (1..MaxKey) \cup GradeLongKeys}

\* n strings of which the first k are right
GradeFirstRight(n, k) ==
    [i \in 1..n |->
        IF i > k THEN <<"a", " ", "b">>
        ELSE IF i % 2 = 1 THEN <<" ", "a", "B", "\n">> ELSE <<"X">>]

\* the numbers of right items at which 100 * k / n is an integer and a half
GradeTies(n) ==
    {k \in 0..n : (200 * k) % n = 0 /\ ((200 * k) \div n) % 2 = 1}

GradeSubmits ==
    UNION {{user \in [1..n -> GradeWords(1) \cup GradeWords(2)] :
                \A i \in 1..n : user[i] \in GradeWords(i)} : n \in 0..MaxKey}
    \cup UNION {{GradeFirstRight(n, k) : k \in GradeTies(n) \cup {0, n}} :
                    n \in GradeLongKeys}

GradeInit ==
    /\ \E session \in GradeSessions : GAME_CACHE = CachePut(<<>>, 1, session)
    /\ tasks = EmptyBag
    /\ nextId = 2
    /\ last = NoResponse
    /\ graded = [i \in Ids |-> 0]
    /\ closed = {}
    /\ quizSeen = <<>>

GradeNext ==
    \/ \E id \in Ids, user_answers \in GradeSubmits :
          validate_library_blanks_request(id, user_answers)
    \/ \E id \in Ids, user_corrections \in GradeSubmits :
          submit_grammar_game_request(id, user_corrections)

GradeSpec == GradeInit /\ [][GradeNext]_vars

(***************************************************************************)
(* The claims.                                                             *)
(***************************************************************************)
LookupOps == GradingOps \cup {"get_library_quiz_text"}

\* C1: single-use sessions.  A validate, check or get-quiz-text call that
\* starts on an id already consumed (a graded result was returned for it, or
\* get-quiz-text ended in the keyword-count mismatch) or never issued
\* returns 404.
C1_SingleUse ==
    (last.op \in LookupOps /\ last.late) => last.status = 404

\* a call on a consumed id was answered 404
C1_Witness ==
    /\ last.op \in LookupOps
    /\ last.late
    /\ last.id \in closed
    /\ graded[last.id] = 1
    /\ last.status = 404

\* C2: no two validate calls on one session id are both past the existence
\* check and before the delete at the same time.
C2_CheckAndDeleteAtomic ==
    \A t \in Suspended :
        t.op = "validate_reading_mission_quiz" => CopiesIn(t, tasks) <= 1

\* C3: exactly-once consumption.  Of all the validate/check calls on one
\* session id, at most one returns a graded result.
C3_AtMostOneGraded ==
    \A id \in Ids : graded[id] <= 1

\* a validate call that passed the existence check lost the race: the judge
\* answered, the session was already consumed, and the call failed
C3_Witness ==
    /\ last.op = "validate_reading_mission_quiz"
    /\ ~last.late
    /\ last.upstream = 200
    /\ last.status = 500
    /\ graded[last.id] = 1

\* the key that holds the answer key in the sessions a handler grades
KeyOf(op) ==
    CASE op = "validate_reading_mission_quiz" -> "answers"
      [] op = "validate_library_blanks" -> "correct_answers"
      [] op = "submit_grammar_game" -> "correct_sentences"

\* the last call found an Open session of its kind under its id, and the
\* list it submitted differs in length from the stored answer key
CountMismatch ==
    /\ last.op \in {"validate_reading_mission_quiz", "validate_library_blanks",
                    "submit_grammar_game"}
    /\ last.id \in DOMAIN last.before
    /\ HasKey(last.before[last.id], KeyOf(last.op))
    /\ last.size # Len(last.before[last.id][KeyOf(last.op)])

\* C4: answer-count mismatch.  A ReadingMission, LibraryBlanks or GrammarFix
\* validate call on an Open session with a submission whose length differs
\* from the stored key's returns 400 and leaves the store as it was.
C4_CountMismatchIs400 ==
    CountMismatch => (last.status = 400 /\ GAME_CACHE = last.before)

\* C5: a generate call that returns a failure has created no session under
\* the id it drew.
C5_FailedGenerateStoresNothing ==
    (last.op \in GenerateOps /\ last.status # 200)
        => last.id \notin DOMAIN GAME_CACHE

\* C6: a generate call whose provider answered HTTP 503 returns status 503.
C6_OverloadedSurfaced ==
    (last.op \in GenerateOps /\ last.upstream = 503) => last.status = 503

\* the last call was get-quiz-text on a LibraryBlanks session whose blanked
\* text holds a number of placeholders other than the number of keywords
BlankMismatch ==
    /\ last.op = "get_library_quiz_text"
    /\ last.id \in DOMAIN last.before
    /\ HasKey(last.before[last.id], "correct_answers")
    /\ StrCount(BlankOut(last.before[last.id].full_text,
                         last.before[last.id].correct_answers).text_with_blanks,
                placeholder)
         # Len(last.before[last.id].correct_answers)

\* C7: fail-closed blanking.  A get-quiz-text call on a session whose blanked
\* text holds a number of placeholders other than the number of stored
\* keywords deletes the session and returns a failure, and a library-validate
\* or get-quiz-text call that starts on that id afterwards returns 404.
C7_FailClosed ==
    /\ BlankMismatch
        => /\ last.status \notin {200, 404}
           /\ last.id \notin DOMAIN GAME_CACHE
           /\ last.id \in closed
    /\ (/\ last.op \in {"get_library_quiz_text", "validate_library_blanks"}
        /\ last.late)
        => last.status = 404

\* get-quiz-text hit the mismatch on an id, and a later call on it got 404
C7_Witness ==
    /\ last.op = "validate_library_blanks"
    /\ last.late
    /\ last.id \in closed
    /\ graded[last.id] = 0
    /\ last.status = 404

\* C8: a blanked text is returned only when every stored keyword was
\* substituted (blanks_created equals the number of keywords), and it holds
\* exactly that many placeholders.
C8_EveryKeywordSubstituted ==
    (last.op = "get_library_quiz_text" /\ last.status = 200)
        => LET session == GAME_CACHE[last.id]
               N == Len(session.correct_answers)
           IN  /\ BlankOut(session.full_text,
                           session.correct_answers).blanks_created = N
               /\ StrCount(last.body.text_with_blanks, placeholder) = N
               /\ last.body.total_questions = N

\* C9: get-quiz-text is an idempotent read.  A successful call leaves the
\* store as it was, and every successful call on a session returns the
\* blanked text and total_questions the first one returned.
C9_IdempotentRead ==
    (last.op = "get_library_quiz_text" /\ last.status = 200)
        => /\ GAME_CACHE = last.before
           /\ last.id \in DOMAIN quizSeen
           /\ last.body = quizSeen[last.id].body

\* get-quiz-text succeeded a second time on a session
C9_Witness ==
    /\ last.op = "get_library_quiz_text"
    /\ last.status = 200
    /\ last.id \in DOMAIN GAME_CACHE
    /\ quizSeen[last.id].repeated

\* the store the last response left holds key for key what the handler
\* found, apart from the entry under its id
OthersUntouched ==
    /\ (DOMAIN GAME_CACHE) \ {last.id} = (DOMAIN last.before) \ {last.id}
    /\ \A k \in (DOMAIN last.before) \ {last.id} : GAME_CACHE[k] = last.before[k]

\* C10: store lifecycle frame.  A call changes the store only by a successful
\* generate adding the entry of its fresh id, by a successful validate/check
\* removing the entry of its id, or by the get-quiz-text mismatch removing
\* the entry of its id; every other entry stays as it was.
C10_StoreFrame ==
    \/ GAME_CACHE = last.before
    \/ /\ last.op \in GenerateOps
       /\ last.status = 200
       /\ last.id \notin DOMAIN last.before
       /\ last.id \in DOMAIN GAME_CACHE
       /\ OthersUntouched
    \/ /\ last.op \in GradingOps
       /\ last.status = 200
       /\ last.id \in DOMAIN last.before
       /\ last.id \notin DOMAIN GAME_CACHE
       /\ OthersUntouched
    \/ /\ last.op = "get_library_quiz_text"
       /\ last.status = 500
       /\ last.id \in DOMAIN last.before
       /\ last.id \notin DOMAIN GAME_CACHE
       /\ OthersUntouched

\* C11: no failure corrupts the store.  Every call that ends in a failure
\* response (404, 400, a provider or parse error during generate or during
\* the ReadingMission validate, a lost validate race) leaves the store as it
\* found it; the one exception is the get-quiz-text keyword-count mismatch,
\* which deletes its own session.
C11_FailureLeavesStore ==
    (/\ last.op # "none"
     /\ last.status # 200
     /\ ~(last.op = "get_library_quiz_text" /\ last.status = 500))
        => GAME_CACHE = last.before

\* the provider fields a generate response shows to the player
PublicFields(op) ==
    CASE op = "generate_reading_mission" -> {"reading_text", "quiz_questions"}
      [] op = "generate_hoax_quiz" -> {"news_snippet"}
      [] op = "generate_library_full_text" -> {"full_text"}
      [] op = "generate_grammar_game" -> {"sentences_to_fix"}

\* two provider outputs agree on the public fields of a game kind
SamePublic(op, d1, d2) ==
    \A f \in PublicFields(op) :
        /\ HasKey(d1, f) <=> HasKey(d2, f)
        /\ HasKey(d1, f) => d1[f] = d2[f]

\* what the generate handler op does on cache under id, for every request
\* parameter and every provider reply
GenerateOutcomes(op, cache, id) ==
    CASE op = "generate_reading_mission" ->
            {[params |-> <<topic>>, reply |-> r,
              o |-> generate_reading_mission(cache, id, topic, r)] :
                topic \in Topics, r \in ReadingReplies}
      [] op = "generate_hoax_quiz" ->
            {[params |-> <<>>, reply |-> r,
              o |-> generate_hoax_quiz(cache, id, r)] : r \in HoaxReplies}
      [] op = "generate_library_full_text" ->
            {[params |-> <<format, genre>>, reply |-> r,
              o |-> generate_library_full_text(cache, id, format, genre, r)] :
                format \in Formats, genre \in Genres, r \in LibraryReplies}
      [] op = "generate_grammar_game" ->
            {[params |-> <<genre>>, reply |-> r,
              o |-> generate_grammar_game(cache, id, genre, r)] :
                genre \in GrammarGenres, r \in GrammarReplies}

\* two successful runs of one generate handler with the same request
\* parameters on provider outputs that agree on the public fields, the
\* first of which sent the last response
SecretTwins(a, b) ==
    /\ a.o.status = 200
    /\ b.o.status = 200
    /\ a.params = b.params
    /\ a.o.body = last.body
    /\ SamePublic(last.op, a.reply.text, b.reply.text)

\* C12: secret independence of the generate response.  For every game kind,
\* two successful generate calls with the same request parameters whose
\* provider outputs agree on the public fields and differ in the secret
\* fields return the same response under the same session id.
C12_SecretIndependence ==
    (last.op \in GenerateOps /\ last.status = 200)
        => \A a, b \in GenerateOutcomes(last.op, last.before, last.id) :
              SecretTwins(a, b) => b.o.body = last.body

\* a hoax quiz was generated, and a provider output with the same snippet
\* and the opposite verdict would have been a successful generate too
C12_Witness ==
    /\ last.op = "generate_hoax_quiz"
    /\ last.status = 200
    /\ \E a, b \in GenerateOutcomes(last.op, last.before, last.id) :
          /\ SecretTwins(a, b)
          /\ a.reply.text.is_hoax # b.reply.text.is_hoax

\* the last call was a LibraryBlanks or GrammarFix validate that returned a
\* graded result
Graded ==
    /\ last.op \in {"validate_library_blanks", "submit_grammar_game"}
    /\ last.status = 200

\* the answer key the last call was graded against
GradedKey == last.before[last.id][KeyOf(last.op)]

\* the items of the last submission that equal the key's item once both are
\* stripped of outer whitespace and lower-cased
GradedRight ==
    {i \in 1..Len(GradedKey) :
        Lower(Strip(last.submitted[i])) = Lower(Strip(GradedKey[i]))}

\* C13: aggregate score.  A LibraryBlanks or GrammarFix validate with a key
\* of n >= 1 items and a submission of n items of which k are correct
\* returns total_score = 100*k/n rounded to the nearest integer, the sum
\* being rounded once: k = n gives 100 and k = 0 gives 0.
C13_AggregateScore ==
    Graded =>
        LET n == Len(GradedKey)
            k == Cardinality(GradedRight)
            total_score == last.body.total_score
        IN  /\ n >= 1
            /\ last.size = n
            /\ 2 * (n * total_score - 100 * k) <= n
            /\ 2 * (100 * k - n * total_score) <= n
            /\ k = n => total_score = 100
            /\ k = 0 => total_score = 0

\* three of three items were right, where rounding per item would give 99
C13_Witness ==
    /\ Graded
    /\ Len(GradedKey) = 3
    /\ Cardinality(GradedRight) = 3
    /\ last.body.total_score = 100

\* the submitted and the ideal value of record r of the results list
UserOf(op, r) ==
    IF op = "validate_library_blanks" THEN r.user_answer ELSE r.user_correction
IdealOf(op, r) ==
    IF op = "validate_library_blanks" THEN r.correct_answer ELSE r.correct_sentence

\* C14: per-item grading.  The results list of a LibraryBlanks or GrammarFix
\* validate has one record per key item, in input order, carrying the
\* submitted and the ideal value unmodified, and marks item i correct
\* exactly when the two are equal after stripping outer whitespace and
\* lower-casing both.
C14_PerItemGrading ==
    Graded =>
        LET results == last.body.results
        IN  /\ Len(results) = Len(GradedKey)
            /\ \A i \in 1..Len(GradedKey) :
                  /\ UserOf(last.op, results[i]) = last.submitted[i]
                  /\ IdealOf(last.op, results[i]) = GradedKey[i]
                  /\ results[i].is_correct <=> i \in GradedRight

\* a submission right only up to case and outer whitespace, next to one
\* wrong by an inner space, was graded
C14_Witness ==
    /\ Graded
    /\ Len(GradedKey) >= 3
    /\ last.submitted[1] = <<" ", "a", "B", "\n">>
    /\ last.body.results[1].is_correct
    /\ last.submitted[3] = <<"a", " ", "b">>
    /\ ~last.body.results[3].is_correct

\* the session the last call found under its id
Found == last.before[last.id]

\* the last call was get-quiz-text on a LibraryBlanks session
QuizTextCall ==
    /\ last.op = "get_library_quiz_text"
    /\ last.id \in DOMAIN last.before
    /\ HasKey(Found, "correct_answers")

\* every occurrence of w in s lies inside the stretch of length n at p
OnlyInside(w, s, p, n) ==
    \A i \in 1..Len(s) :
        MatchAt(w, s, i) => (p <= i /\ i + Len(w) <= p + n)

\* the session holds two keywords, the second a substring of the first
\* (case ignored), and the text holds the first once and the second
\* nowhere else
OverlapCase ==
    /\ QuizTextCall
    /\ Len(Found.correct_answers) = 2
    /\ LET k1 == Lower(Found.correct_answers[1])
           k2 == Lower(Found.correct_answers[2])
           text == Lower(Found.full_text)
       IN  /\ Contains(k2, k1)
           /\ StrCount(text, k1) = 1
           /\ OnlyInside(k2, text, FindFirst(k1, text), Len(k1))

\* C15: overlapping keywords.  On a session whose keyword list is [k1, k2]
\* with k2 a substring of k1, the text holding k1 once and k2 nowhere else,
\* get-quiz-text either returns a text in which both keywords were
\* substituted and that holds exactly 2 placeholders, or returns the
\* consistency fault and deletes the session.
C15_OverlapNeverMiscounts ==
    OverlapCase =>
        \/ /\ last.status = 200
           /\ BlankOut(Found.full_text, Found.correct_answers).blanks_created = 2
           /\ StrCount(last.body.text_with_blanks, placeholder) = 2
        \/ /\ last.status = 500
           /\ last.id \notin DOMAIN GAME_CACHE

\* re-running the check of line 384 for blank on text matches characters of
\* a placeholder occurrence
PlaceholderHit(blank, text) ==
    LET clean == RStripChars(Lower(Strip(blank)), {".", ",", "?", "!"})
    IN  /\ clean # <<>>
        /\ \E i, p \in 1..Len(text) :
              /\ MatchAt(clean, Lower(text), i)
              /\ MatchAt(placeholder, text, p)
              /\ i < p + Len(placeholder)
              /\ p < i + Len(clean)

\* C16: blanking is idempotent in intent.  On the text a successful
\* get-quiz-text returns, the keyword verification (lower-case, strip
\* trailing ".,?!", substring test) matches no stored keyword against
\* characters of a placeholder occurrence.
C16_NoPlaceholderRematch ==
    (QuizTextCall /\ last.status = 200)
        => \A i \in 1..Len(Found.correct_answers) :
              ~PlaceholderHit(Found.correct_answers[i], last.body.text_with_blanks)

\* C17: a correctly-sized submission closes the game.  A LibraryBlanks or
\* GrammarFix validate on an Open session with a submission as long as the
\* stored key returns a graded result and deletes the session.
C17_SizedSubmissionCloses ==
    (/\ last.op \in {"validate_library_blanks", "submit_grammar_game"}
     /\ last.id \in DOMAIN last.before
     /\ HasKey(Found, KeyOf(last.op))
     /\ last.size = Len(Found[KeyOf(last.op)]))
        => (last.status = 200 /\ last.id \notin DOMAIN GAME_CACHE)

\* C18: verified keywords are locatable.  Every keyword of a stored
\* LibraryBlanks session occurs, as stored, in the stored text (case
\* ignored), and get-quiz-text on a session of one keyword succeeds.
C18_KeywordsLocatable ==
    /\ \A id \in DOMAIN GAME_CACHE :
          HasKey(GAME_CACHE[id], "correct_answers")
            => \A i \in 1..Len(GAME_CACHE[id].correct_answers) :
                  Contains(Lower(GAME_CACHE[id].correct_answers[i]),
                           Lower(GAME_CACHE[id].full_text))
    /\ (QuizTextCall /\ Len(Found.correct_answers) = 1) => last.status = 200

\* C19: every LibraryBlanks session in the store holds between 1 and 5
\* keywords, and library-validate never fails on an empty key.
C19_LibraryKeyBounds ==
    /\ \A id \in DOMAIN GAME_CACHE :
          HasKey(GAME_CACHE[id], "correct_answers")
            => Len(GAME_CACHE[id].correct_answers) \in 1..5
    /\ last.op = "validate_library_blanks" => last.status \in {200, 400, 404}

\* library-generate stored a session of exactly 5 keywords
C19_Witness ==
    /\ last.op = "generate_library_full_text"
    /\ last.status = 200
    /\ last.id \in DOMAIN GAME_CACHE
    /\ Len(GAME_CACHE[last.id].correct_answers) = 5

\* the last call was hoax-check on an Open HoaxQuiz session
HoaxCheckCall ==
    /\ last.op = "check_hoax_answer"
    /\ last.id \in DOMAIN last.before
    /\ HasKey(Found, "is_hoax")

\* C20: hoax-check on an Open HoaxQuiz session, whatever the choice string,
\* deletes the session and returns is_correct = true exactly when the
\* lower-cased choice is "hoax" for a stored is_hoax = true or "fakta" for a
\* stored is_hoax = false, with the stored explanation and source.
C20_HoaxCheck ==
    HoaxCheckCall =>
        /\ last.status = 200
        /\ last.id \notin DOMAIN GAME_CACHE
        /\ last.body.is_correct <=>
              Lower(last.submitted[1]) =
                 (IF Found.is_hoax THEN <<"h", "o", "a", "x">>
                  ELSE <<"f", "a", "k", "t", "a">>)
        /\ last.body.explanation = Found.explanation
        /\ last.body.source_url = Found.source_url

\* "FAKTA" was accepted for a session that is not a hoax
C20_Witness ==
    /\ HoaxCheckCall
    /\ ~Found.is_hoax
    /\ last.submitted[1] = <<"F", "A", "K", "T", "A">>
    /\ last.body.is_correct
    /\ last.id \notin DOMAIN GAME_CACHE

\* the game kind of a stored session, by the key that holds its answer key
KindOfSession(session) ==
    CASE HasKey(session, "answers") -> "ReadingMission"
      [] HasKey(session, "is_hoax") -> "HoaxQuiz"
      [] HasKey(session, "correct_answers") -> "LibraryBlanks"
      [] HasKey(session, "correct_sentences") -> "GrammarFix"

\* the game kind a validate, check or get-quiz-text handler belongs to
KindOfOp(op) ==
    CASE op = "validate_reading_mission_quiz" -> "ReadingMission"
      [] op = "check_hoax_answer" -> "HoaxQuiz"
      [] op \in {"get_library_quiz_text", "validate_library_blanks"} ->
            "LibraryBlanks"
      [] op = "submit_grammar_game" -> "GrammarFix"

\* the last call was a validate, check or get-quiz-text call that found an
\* Open session of another game kind under its id
CrossKindCall ==
    /\ last.op \in LookupOps
    /\ last.id \in DOMAIN last.before
    /\ KindOfSession(Found) # KindOfOp(last.op)

\* C21: kind isolation.  A validate, check or get-quiz-text call issued with
\* the id of an Open session of another game kind returns a failure that
\* carries no graded result and no stored secret, and leaves the store as
\* it was: the session stays Open, unchanged, for its own kind's validate.
C21_KindIsolation ==
    CrossKindCall =>
        /\ last.status \in {404, 500}
        /\ last.body = NoBody
        /\ GAME_CACHE = last.before
        /\ last.id \in DOMAIN GAME_CACHE
        /\ last.id \notin closed
        /\ graded[last.id] = 0

\* hoax-check was called with the id of an Open LibraryBlanks session
C21_Witness ==
    /\ CrossKindCall
    /\ last.op = "check_hoax_answer"
    /\ KindOfSession(Found) = "LibraryBlanks"
    /\ last.status = 500
    /\ GAME_CACHE[last.id] = Found

====
